---- MODULE Spec2Model ----
(***************************************************************************)
(* Model of oslocfg/generator.py: the sample configuration generator.      *)
(*                                                                         *)
(* One run of generate(conf) is a state machine: the output file is        *)
(* opened, _get_raw_opts_loaders resolves and calls every namespace        *)
(* loader, _update_defaults runs the update hooks, _cleanup_opts           *)
(* de-duplicates, _get_groups regroups by section and the sections are     *)
(* written with _output_opts.  A second specification calls _cleanup_opts  *)
(* directly on arbitrary listings.                                         *)
(*                                                                         *)
(* Strings whose case or order matters (source names, section names) are   *)
(* sequences of character codes, so str.lower() and Python's string        *)
(* comparison are computed and not assumed.                                *)
(***************************************************************************)
EXTENDS Integers, Sequences, FiniteSets, TLC

VARIABLES
    conf_output_file,   \* conf.output_file: "" (stdout) or a path
    conf_opts,          \* conf.opts: the namespace identifiers
    conf_updates,       \* conf.updates: the update identifiers
    pc,                 \* position of the run
    err,                \* the exception that ended the run, or "none"
    file,               \* state of the file opened by generate
    i,                  \* loop index of _get_raw_opts_loaders
    memo,               \* `groups` of _get_raw_opts_loaders: name -> OptGroup
    loaders,            \* `_map` of _get_raw_opts_loaders / read_opts
    names,              \* `names` of _update_defaults
    j,                  \* loop index of _update_defaults
    defaults,           \* the module-level default the update hooks mutate
    calls,              \* every loader and hook invocation, in order
    cleaned,            \* result of _cleanup_opts
    groups,             \* result of _get_groups (after the pop of DEFAULT)
    todo,               \* the sorted items generate still has to write
    out                 \* the lines written to the output, in order

vars == <<conf_output_file, conf_opts, conf_updates, pc, err, file, i, memo,
          loaders, names, j, defaults, calls, cleaned, groups, todo, out>>

----------------------------------------------------------------------------
(* Bounds of the model. *)

MaxNamespaces == 2
MaxUpdates == 2
MaxEntries == 2

----------------------------------------------------------------------------
(* Strings as character codes. *)

sDEFAULT == <<68, 69, 70, 65, 85, 76, 84>>          \* 'DEFAULT'
sdefault == <<100, 101, 102, 97, 117, 108, 116>>    \* 'default'
sAl == <<97, 108>>                                  \* 'al'
sZe == <<90, 101>>                                  \* 'Ze'

\* str.lower() on ASCII text
Lower(s) == [k \in DOMAIN s |-> IF s[k] \in 65..90 THEN s[k] + 32 ELSE s[k]]

\* Python's str `<`: lexicographic on code points, a proper prefix is smaller
StrLess(a, b) ==
    \E k \in 1..(Len(b)) :
        /\ \A m \in 1..(k - 1) : m <= Len(a) /\ a[m] = b[m]
        /\ \/ k > Len(a)
           \/ k <= Len(a) /\ a[k] < b[k]

----------------------------------------------------------------------------
(* Option objects, groups and the callables the locators resolve to. *)

NoneGroup == [kind |-> "None", name |-> <<>>, id |-> 0]
DefaultKey == [kind |-> "str", name |-> sDEFAULT, id |-> 0]

MkOpt(dest, origin, pos, d, help, min, mutable, removal) ==
    [dest |-> dest, origin |-> origin, pos |-> pos, default |-> d,
     help |-> help, min |-> min, mutable |-> mutable,
     deprecated_for_removal |-> removal]

NoOpt == MkOpt("", 0, 0, 0, FALSE, FALSE, "false", FALSE)

\* The attributes of the importable module "m": option loaders and update hooks.
LoaderAttrs == {"l1", "l2", "l3"}
HookAttrs == {"u1", "u2"}

\* func() of a loader, called for the identifier at index `origin` while the
\* shared default is d.  l1 registers dest "x" twice; l2 returns one option of
\* a foreign class that has no `mutable` attribute; l3 returns no option.
CallLoader(attr, origin, d) ==
    CASE attr = "l1" ->
            << MkOpt("x", origin, 1, d, TRUE, TRUE, "true", FALSE),
               MkOpt("y", origin, 2, d, FALSE, FALSE, "false", TRUE),
               MkOpt("x", origin, 3, d, TRUE, FALSE, "false", FALSE) >>
      [] attr = "l2" ->
            << MkOpt("y", origin, 1, d, TRUE, FALSE, "false", FALSE),
               MkOpt("z", origin, 2, d, TRUE, TRUE, "absent", FALSE),
               MkOpt("w", origin, 3, d, TRUE, FALSE, "true", FALSE) >>
      [] OTHER -> << >>

\* func() of an update hook: it sets the shared default.
CallHook(attr, d) == IF attr = "u1" THEN 1 ELSE 2

\* A faulty import_class: a missing attribute yields no callable and no error
import_class_lenient(cls) ==
    IF cls[1] # "m" THEN [exc |-> "ImportError", func |-> ""]
    ELSE [exc |-> "none", func |-> cls[2]]

\* import_class(import_str): __import__(mod_str) raises ImportError for an
\* unknown module, a missing attribute is re-raised as ImportError.
import_class(cls) ==
    IF cls[1] # "m" THEN [exc |-> "ImportError", func |-> ""]
    ELSE IF cls[2] \notin LoaderAttrs \cup HookAttrs
         THEN [exc |-> "ImportError", func |-> ""]
         ELSE [exc |-> "none", func |-> cls[2]]

Id(name, mod, attr) == [name |-> name, cls |-> <<mod, attr>>]

NamespaceIds ==
    { Id(sDEFAULT, "m", "l1"), Id(sdefault, "m", "l2"), Id(sdefault, "m", "l3"),
      Id(sAl, "m", "l1"), Id(sZe, "m", "l2"), Id(sZe, "m", "l3"),
      Id(sAl, "nomod", "l1") }

UpdateIds ==
    { Id(sAl, "m", "u1"), Id(sAl, "m", "u2"), Id(sdefault, "m", "u1"),
      Id(sZe, "m", "noattr") }

SeqsUpTo(S, n) == UNION { [1..k -> S] : k \in 0..n }

----------------------------------------------------------------------------
(* _get_raw_opts_loaders *)

\* A faulty line 323: the comparison forgets .lower()
IsDefaultNameExact(name) == name = sDEFAULT

\* line 323: name.lower() == 'default'
IsDefaultName(name) == Lower(name) = sdefault

\* Faulty lines 327-329: a new OptGroup for every identifier, no reuse
GroupOfNoMemo(name, groupsMemo, serial) ==
    IF IsDefaultName(name) THEN NoneGroup
    ELSE [kind |-> "OptGroup", name |-> name, id |-> serial]

\* lines 323-329: the name and the group of one namespace identifier
GroupOf(name, groupsMemo, serial) ==
    IF IsDefaultName(name) THEN NoneGroup
    ELSE IF name \in DOMAIN groupsMemo THEN groupsMemo[name]
         ELSE [kind |-> "OptGroup", name |-> name, id |-> serial]

CanonName(name) == IF IsDefaultName(name) THEN sDEFAULT ELSE name

----------------------------------------------------------------------------

Init ==
    /\ conf_output_file \in {"", "sample.conf"}
    /\ conf_opts \in SeqsUpTo(NamespaceIds, MaxNamespaces)
    /\ conf_updates \in SeqsUpTo(UpdateIds, MaxUpdates)
    /\ pc = "start"
    /\ err = "none"
    /\ file = "none"
    /\ i = 1
    /\ memo = << >>
    /\ loaders = << >>
    /\ names = {}
    /\ j = 1
    /\ defaults = 0
    /\ calls = << >>
    /\ cleaned = << >>
    /\ groups = << >>
    /\ todo = << >>
    /\ out = << >>

\* generate, lines 420-426: open the destination, build the formatter
Open ==
    /\ pc = "start"
    /\ file' = IF conf_output_file # "" THEN "open" ELSE "none"
    /\ pc' = "loaders"
    /\ UNCHANGED <<conf_output_file, conf_opts, conf_updates, err, i, memo,
                   loaders, names, j, defaults, calls, cleaned, groups, todo, out>>

\* one iteration of the loop of _get_raw_opts_loaders, lines 321-331
LoadNamespace ==
    /\ pc = "loaders"
    /\ i <= Len(conf_opts)
    /\ LET name == conf_opts[i].name
           cls == conf_opts[i].cls
           group == GroupOf(name, memo, i)
           r == import_class(cls)
       IN  /\ memo' = IF group.kind = "OptGroup" /\ name \notin DOMAIN memo
                      THEN memo @@ (name :> group) ELSE memo
           /\ IF r.exc # "none"
              THEN /\ pc' = "aborted"
                   /\ err' = r.exc
                   /\ UNCHANGED <<i, loaders, calls>>
              ELSE /\ loaders' = Append(loaders,
                          <<CanonName(name),
                            << <<group, CallLoader(r.func, i, defaults)>> >> >>)
                   /\ calls' = Append(calls, [op |-> "load", name |-> name,
                                              func |-> r.func, idx |-> i])
                   /\ i' = i + 1
                   /\ UNCHANGED <<pc, err>>
    /\ UNCHANGED <<conf_output_file, conf_opts, conf_updates, file, names, j,
                   defaults, cleaned, groups, todo, out>>

\* _update_defaults, lines 337-340: the names of the requested namespaces
RequestedNames(namespaces) == { namespaces[k].name : k \in DOMAIN namespaces }

EnterUpdates ==
    /\ pc = "loaders"
    /\ i > Len(conf_opts)
    /\ names' = RequestedNames(conf_opts)
    /\ pc' = "updates"
    /\ UNCHANGED <<conf_output_file, conf_opts, conf_updates, err, file, i, memo,
                   loaders, j, defaults, calls, cleaned, groups, todo, out>>

\* A faulty line 346: the matched name stays eligible
NamesKept(eligible, name) == eligible

\* line 346: names.remove(name)
NamesAfterMatch(eligible, name) == eligible \ {name}

\* line 344: if name in names
Matches(eligible, name) == name \in eligible

\* one iteration of the loop of _update_defaults, lines 341-346
RunUpdate ==
    /\ pc = "updates"
    /\ j <= Len(conf_updates)
    /\ LET name == conf_updates[j].name
           r == import_class(conf_updates[j].cls)
       IN  IF r.exc # "none"
           THEN /\ pc' = "aborted"
                /\ err' = r.exc
                /\ UNCHANGED <<names, j, defaults, calls>>
           ELSE /\ IF Matches(names, name)
                   THEN /\ defaults' = CallHook(r.func, defaults)
                        /\ calls' = Append(calls, [op |-> "update", name |-> name,
                                                   func |-> r.func, idx |-> j])
                        /\ names' = NamesAfterMatch(names, name)
                   ELSE UNCHANGED <<names, defaults, calls>>
                /\ j' = j + 1
                /\ UNCHANGED <<pc, err>>
    /\ UNCHANGED <<conf_output_file, conf_opts, conf_updates, file, i, memo,
                   loaders, cleaned, groups, todo, out>>

----------------------------------------------------------------------------
(* _cleanup_opts.  An OrderedDict is a sequence of <<key, value>> pairs with  *)
(* distinct keys, in insertion order.                                        *)

ODHas(od, k) == \E p \in DOMAIN od : od[p][1] = k

ODGet(od, k) == od[CHOOSE p \in DOMAIN od : od[p][1] = k][2]

\* A faulty od[k] = v: the key is deleted and inserted again, so it moves last
ODSetMoveToEnd(od, k, v) ==
    LET Other(e) == e[1] # k
    IN  Append(SelectSeq(od, Other), <<k, v>>)

\* od[k] = v: an existing key keeps its position, a new key goes last
ODSet(od, k, v) ==
    IF ODHas(od, k)
    THEN [p \in DOMAIN od |-> IF od[p][1] = k THEN <<k, v>> ELSE od[p]]
    ELSE Append(od, <<k, v>>)

ODValues(od) == [p \in DOMAIN od |-> od[p][2]]

\* lines 298-299
RECURSIVE CleanOpts(_, _)
CleanOpts(gd, opts) ==
    IF opts = << >> THEN gd
    ELSE CleanOpts(ODSet(gd, Head(opts).dest, Head(opts)), Tail(opts))

\* lines 295-299
RECURSIVE CleanListing(_, _)
CleanListing(nd, listing) ==
    IF listing = << >> THEN nd
    ELSE LET group == Head(listing)[1]
             nd1 == IF ODHas(nd, group) THEN nd ELSE ODSet(nd, group, << >>)
         IN  CleanListing(
                 ODSet(nd1, group, CleanOpts(ODGet(nd1, group), Head(listing)[2])),
                 Tail(listing))

\* lines 291-299
RECURSIVE CleanAll(_, _)
CleanAll(clean, read_opts) ==
    IF read_opts = << >> THEN clean
    ELSE LET namespace == Head(read_opts)[1]
             c1 == IF ODHas(clean, namespace) THEN clean
                   ELSE ODSet(clean, namespace, << >>)
         IN  CleanAll(
                 ODSet(c1, namespace,
                       CleanListing(ODGet(c1, namespace), Head(read_opts)[2])),
                 Tail(read_opts))

\* lines 277-309
_cleanup_opts(read_opts) ==
    LET clean == CleanAll(<< >>, read_opts)
    IN  [n \in DOMAIN clean |->
            <<clean[n][1],
              [g \in DOMAIN clean[n][2] |->
                  <<clean[n][2][g][1], ODValues(clean[n][2][g][2])>>]>>]

\* _list_opts, line 370, once _update_defaults has returned
ListOpts ==
    /\ pc = "updates"
    /\ j > Len(conf_updates)
    /\ cleaned' = _cleanup_opts(loaders)
    /\ pc' = "get_groups"
    /\ UNCHANGED <<conf_output_file, conf_opts, conf_updates, err, file, i, memo,
                   loaders, names, j, defaults, calls, groups, todo, out>>

----------------------------------------------------------------------------
(* _get_groups.  The dict `groups` is a function from keys (group objects or *)
(* the string 'DEFAULT') to lists of <<namespace, opts>> pairs.              *)

\* A faulty line 405: empty option lists are kept
SkipsNothing(opts) == FALSE

\* line 405: `if not opts: continue`
SkipsListing(opts) == opts = << >>

\* lines 405-408, for one (group, opts) pair of one namespace
AddToGroups(g, namespace, group, opts) ==
    IF SkipsListing(opts) THEN g
    ELSE LET key == IF group.kind = "None" THEN DefaultKey ELSE group
         IN  IF key \in DOMAIN g
             THEN [g EXCEPT ![key] = Append(@, <<namespace, opts>>)]
             ELSE g @@ (key :> << <<namespace, opts>> >>)

RECURSIVE GroupListing(_, _, _)
GroupListing(g, namespace, listing) ==
    IF listing = << >> THEN g
    ELSE GroupListing(AddToGroups(g, namespace, Head(listing)[1], Head(listing)[2]),
                      namespace, Tail(listing))

RECURSIVE GroupAll(_, _)
GroupAll(g, conf_ns) ==
    IF conf_ns = << >> THEN g
    ELSE GroupAll(GroupListing(g, Head(conf_ns)[1], Head(conf_ns)[2]), Tail(conf_ns))

\* lines 401-409
_get_groups(conf_ns) == GroupAll((DefaultKey :> << >>), conf_ns)

\* generate, line 428: groups = _get_groups(...)
GetGroups ==
    /\ pc = "get_groups"
    /\ groups' = _get_groups(cleaned)
    /\ pc' = "default"
    /\ UNCHANGED <<conf_output_file, conf_opts, conf_updates, err, file, i, memo,
                   loaders, names, j, defaults, calls, cleaned, todo, out>>

----------------------------------------------------------------------------
(* _OptFormatter and _output_opts.  A written line is a record: its kind,    *)
(* the section or namespace name it carries, the option it describes and,    *)
(* for the second warning line, the error text.                              *)

Line(kind, name, opt, text) == [kind |-> kind, name |-> name, opt |-> opt, text |-> text]

\* A faulty sort key: the name lowercased
_get_group_name_lower(group) == Lower(group.name)

\* lines 392-398: the name of an OptGroup, or the plain string itself (the
\* record of a plain string holds it in `name`)
_get_group_name(group) == IF group.kind = "OptGroup" THEN group.name ELSE group.name

\* format_group, lines 165-178: '[%s]' of group.name or of the plain name;
\* OptGroup(name) carries no help text
format_group(group) == << Line("header", group.name, NoOpt, "") >>

\* format, lines 180-260: the lines are collected and written by the final
\* writelines; an option without `mutable` raises AttributeError, and the
\* handler's isinstance(cfg.Opt, opt) raises TypeError out of format.
format(opt) ==
    LET l1 == << Line("help", << >>, opt, "") >>
        l2 == IF opt.min THEN << Line("min", << >>, opt, "") >> ELSE << >>
        l3 == IF opt.mutable = "true" THEN << Line("mutable", << >>, opt, "") >>
              ELSE << >>
        l4 == IF opt.deprecated_for_removal
              THEN << Line("removal", << >>, opt, "") >> ELSE << >>
        l5 == << Line("default", << >>, opt, "") >>
    IN  IF opt.mutable = "absent"
        THEN [exc |-> "TypeError", lines |-> << >>]
        ELSE [exc |-> "none", lines |-> l1 \o l2 \o l3 \o l4 \o l5]

\* A faulty loop body: no try/except around f.format(opt)
OutputOneOptNoCatch(opt) ==
    LET r == format(opt)
    IN  [exc |-> r.exc, lines |-> << Line("blank", << >>, NoOpt, "") >> \o r.lines]

\* the body of the inner loop of _output_opts, lines 383-389
OutputOneOpt(opt) ==
    LET r == format(opt)
    IN  IF r.exc = "none"
        THEN [exc |-> "none", lines |-> << Line("blank", << >>, NoOpt, "") >> \o r.lines]
        ELSE [exc |-> "none",
              lines |-> << Line("blank", << >>, NoOpt, "") >> \o r.lines \o
                        << Line("warning", << >>, opt, ""),
                           Line("warning_err", << >>, opt, r.exc) >>]

RECURSIVE OutputOptList(_, _)
OutputOptList(opts, acc) ==
    IF opts = << >> THEN [exc |-> "none", lines |-> acc]
    ELSE LET r == OutputOneOpt(Head(opts))
         IN  IF r.exc # "none" THEN [exc |-> r.exc, lines |-> acc \o r.lines]
             ELSE OutputOptList(Tail(opts), acc \o r.lines)

\* sorted(namespaces, key=operator.itemgetter(0)): a stable sort
RECURSIVE SortByNamespace(_)
SortByNamespace(pairs) ==
    IF pairs = << >> THEN << >>
    ELSE LET rest == SortByNamespace(SubSeq(pairs, 1, Len(pairs) - 1))
             x == pairs[Len(pairs)]
             before == { p \in DOMAIN rest : ~StrLess(x[1], rest[p][1]) }
             n == Cardinality(before)
         IN  SubSeq(rest, 1, n) \o <<x>> \o SubSeq(rest, n + 1, Len(rest))

RECURSIVE OutputNamespaces(_, _)
OutputNamespaces(pairs, acc) ==
    IF pairs = << >> THEN [exc |-> "none", lines |-> acc]
    ELSE LET banner == << Line("banner", Head(pairs)[1], NoOpt, "") >>
             r == OutputOptList(Head(pairs)[2], acc \o banner)
         IN  IF r.exc # "none" THEN r
             ELSE OutputNamespaces(Tail(pairs), r.lines)

\* lines 377-389
_output_opts(group, namespaces) ==
    OutputNamespaces(SortByNamespace(namespaces), format_group(group))

----------------------------------------------------------------------------
(* generate, lines 430-436 *)

\* sorted(groups.items(), key=_get_group_name)
RECURSIVE SortKeys(_)
SortKeys(S) ==
    IF S = {} THEN << >>
    ELSE LET m == CHOOSE k \in S :
                     \A o \in S : ~StrLess(_get_group_name(o), _get_group_name(k))
         IN  <<m>> \o SortKeys(S \ {m})

SortedGroups(g) == SortKeys(DOMAIN g)

\* line 431
OutputDefault ==
    /\ pc = "default"
    /\ LET r == _output_opts(DefaultKey, groups[DefaultKey])
           rest == [k \in (DOMAIN groups) \ {DefaultKey} |-> groups[k]]
       IN  /\ out' = out \o r.lines
           /\ groups' = rest
           /\ IF r.exc # "none"
              THEN /\ pc' = "aborted"
                   /\ err' = r.exc
                   /\ todo' = todo
              ELSE /\ pc' = "sections"
                   /\ err' = err
                   /\ todo' = SortedGroups(rest)
    /\ UNCHANGED <<conf_output_file, conf_opts, conf_updates, file, i, memo,
                   loaders, names, j, defaults, calls, cleaned>>

\* one iteration of the loop of lines 434-436
OutputSection ==
    /\ pc = "sections"
    /\ todo # << >>
    /\ LET r == _output_opts(Head(todo), groups[Head(todo)])
       IN  /\ out' = out \o << Line("separator", << >>, NoOpt, "") >> \o r.lines
           /\ todo' = Tail(todo)
           /\ IF r.exc # "none"
              THEN pc' = "aborted" /\ err' = r.exc
              ELSE pc' = pc /\ err' = err
    /\ UNCHANGED <<conf_output_file, conf_opts, conf_updates, file, i, memo,
                   loaders, names, j, defaults, calls, cleaned, groups>>

\* generate returns
Return ==
    /\ pc = "sections"
    /\ todo = << >>
    /\ pc' = "done"
    /\ UNCHANGED <<conf_output_file, conf_opts, conf_updates, err, file, i, memo,
                   loaders, names, j, defaults, calls, cleaned, groups, todo, out>>

Next ==
    \/ Open
    \/ LoadNamespace
    \/ EnterUpdates
    \/ RunUpdate
    \/ ListOpts
    \/ GetGroups
    \/ OutputDefault
    \/ OutputSection
    \/ Return

Spec == Init /\ [][Next]_vars

----------------------------------------------------------------------------
(* A direct call of _cleanup_opts(read_opts) on listings that may hold       *)
(* several groups per namespace and a group more than once.                  *)

GroupA == [kind |-> "OptGroup", name |-> sAl, id |-> 1]
GroupB == [kind |-> "OptGroup", name |-> sZe, id |-> 2]

PlainOpt(dest, origin, pos) == MkOpt(dest, origin, pos, 0, TRUE, FALSE, "false", FALSE)

\* the listing of entry e of read_opts, by shape
Listing(shape, e) ==
    CASE shape = "dup" ->
            << <<GroupA, << PlainOpt("x", e, 1), PlainOpt("y", e, 2),
                            PlainOpt("x", e, 3) >> >> >>
      [] shape = "two" ->
            << <<GroupA, << PlainOpt("x", e, 1) >> >>,
               <<GroupB, << PlainOpt("x", e, 2), PlainOpt("y", e, 3) >> >> >>
      [] shape = "again" ->
            << <<GroupB, << PlainOpt("y", e, 1) >> >>,
               <<GroupA, << PlainOpt("y", e, 2), PlainOpt("x", e, 3) >> >>,
               <<GroupB, << PlainOpt("z", e, 4), PlainOpt("y", e, 5) >> >> >>
      [] OTHER -> << <<NoneGroup, << >> >> >>

EntryChoices == {sAl, sZe} \X {"dup", "two", "again", "empty"}

ReadOptsOf(choice) ==
    [e \in DOMAIN choice |-> <<choice[e][1], Listing(choice[e][2], e)>>]

InitCleanup ==
    /\ conf_output_file = ""
    /\ conf_opts = << >>
    /\ conf_updates = << >>
    /\ pc = "cleanup_call"
    /\ err = "none"
    /\ file = "none"
    /\ i = 1
    /\ memo = << >>
    /\ loaders \in { ReadOptsOf(c) : c \in SeqsUpTo(EntryChoices, MaxEntries) }
    /\ names = {}
    /\ j = 1
    /\ defaults = 0
    /\ calls = << >>
    /\ cleaned = << >>
    /\ groups = << >>
    /\ todo = << >>
    /\ out = << >>

CleanupCall ==
    /\ pc = "cleanup_call"
    /\ cleaned' = _cleanup_opts(loaders)
    /\ pc' = "cleanup_return"
    /\ UNCHANGED <<conf_output_file, conf_opts, conf_updates, err, file, i, memo,
                   loaders, names, j, defaults, calls, groups, todo, out>>

NextCleanup == CleanupCall

SpecCleanup == InitCleanup /\ [][NextCleanup]_vars

----------------------------------------------------------------------------
(* Vocabulary of the properties. *)

\* read_opts flattened to <<namespace, group, opt-or-NoOpt>> in input order;
\* a (group, opts) pair also contributes a marker triple, so that a group
\* with no option is still seen
RECURSIVE FlatOpts(_, _, _)
FlatOpts(namespace, group, opts) ==
    IF opts = << >> THEN << >>
    ELSE << <<namespace, group, Head(opts)>> >> \o FlatOpts(namespace, group, Tail(opts))

RECURSIVE FlatListing(_, _)
FlatListing(namespace, listing) ==
    IF listing = << >> THEN << >>
    ELSE << <<namespace, Head(listing)[1], NoOpt>> >>
         \o FlatOpts(namespace, Head(listing)[1], Head(listing)[2])
         \o FlatListing(namespace, Tail(listing))

RECURSIVE Flat(_)
Flat(read_opts) ==
    IF read_opts = << >> THEN << >>
    ELSE FlatListing(Head(read_opts)[1], Head(read_opts)[2]) \o Flat(Tail(read_opts))

\* the options registered under (namespace, group), in input order
Registered(read_opts, namespace, group) ==
    LET Mine(t) == t[1] = namespace /\ t[2] = group /\ t[3] # NoOpt
        sel == SelectSeq(Flat(read_opts), Mine)
    IN  [p \in DOMAIN sel |-> sel[p][3]]

FirstOf(c, dest) == CHOOSE p \in DOMAIN c :
    c[p].dest = dest /\ \A q \in DOMAIN c : c[q].dest = dest => p <= q

LastOf(c, dest) == CHOOSE p \in DOMAIN c :
    c[p].dest = dest /\ \A q \in DOMAIN c : c[q].dest = dest => q <= p

\* R is c with every dest kept once, where it first appeared, as last registered
IsOverwriteMerge(c, R) ==
    /\ \A a, b \in DOMAIN R : a # b => R[a].dest # R[b].dest
    /\ { R[a].dest : a \in DOMAIN R } = { c[p].dest : p \in DOMAIN c }
    /\ \A a \in DOMAIN R : R[a] = c[LastOf(c, R[a].dest)]
    /\ \A a, b \in DOMAIN R : a < b => FirstOf(c, R[a].dest) < FirstOf(c, R[b].dest)

FirstIndex(s, x) == CHOOSE p \in DOMAIN s : s[p] = x /\ \A q \in DOMAIN s : s[q] = x => p <= q

\* s lists each element of `all` once, in the order of first appearance
IsFirstSeenOrder(all, s) ==
    /\ { s[p] : p \in DOMAIN s } = { all[p] : p \in DOMAIN all }
    /\ \A a, b \in DOMAIN s : a < b => FirstIndex(all, s[a]) < FirstIndex(all, s[b])

NamespacesOf(read_opts) == [p \in DOMAIN read_opts |-> read_opts[p][1]]

GroupsOf(read_opts, namespace) ==
    LET Mine(t) == t[1] = namespace /\ t[3] = NoOpt
        sel == SelectSeq(Flat(read_opts), Mine)
    IN  [p \in DOMAIN sel |-> sel[p][2]]

CleanupMerges(read_opts, result) ==
    /\ IsFirstSeenOrder(NamespacesOf(read_opts), NamespacesOf(result))
    /\ \A n \in DOMAIN result :
          LET namespace == result[n][1]
              listing == result[n][2]
          IN  /\ IsFirstSeenOrder(GroupsOf(read_opts, namespace),
                                  [g \in DOMAIN listing |-> listing[g][1]])
              /\ \A g \in DOMAIN listing :
                    IsOverwriteMerge(Registered(read_opts, namespace, listing[g][1]),
                                     listing[g][2])

\* C3: after _cleanup_opts(read_opts) every (namespace, group) holds each dest
\* once, at the position of its first registration and with the option object
\* of its latest registration, and namespaces, groups and options keep their
\* first-seen order.
C3_CleanupOverwritesInPlace ==
    pc = "cleanup_return" => CleanupMerges(loaders, cleaned)

\* a dest registered twice under one (namespace, group), with another dest
\* registered in between, has been cleaned
C3_Witness ==
    /\ pc = "cleanup_return"
    /\ \E n \in DOMAIN cleaned : \E g \in DOMAIN cleaned[n][2] :
          LET c == Registered(loaders, cleaned[n][1], cleaned[n][2][g][1])
          IN  \E p, q, r \in DOMAIN c :
                 /\ p < q /\ q < r
                 /\ c[p].dest = c[r].dest /\ c[p] # c[r]
                 /\ c[q].dest # c[p].dest
                 /\ cleaned[n][2][g][2][1] = c[r]

----------------------------------------------------------------------------
(* Properties of one run of generate. *)

UpdateCalls ==
    LET IsUpdate(c) == c.op = "update" IN SelectSeq(calls, IsUpdate)

Requested(name) == \E k \in DOMAIN conf_opts : conf_opts[k].name = name

FirstForSource(u) ==
    \A k \in 1..(u - 1) : conf_updates[k].name # conf_updates[u].name

UpdatesReturned == pc \in {"get_groups", "default", "sections", "done"}

\* C1: in a completed run every namespace loader is called exactly once, and
\* when an update identifier names the namespace's source, the update hook
\* has been called before the loader.
C1_HookBeforeLoader ==
    pc = "done" =>
       /\ \A k \in DOMAIN conf_opts :
             Cardinality({ p \in DOMAIN calls :
                 calls[p].op = "load" /\ calls[p].idx = k }) = 1
       /\ \A p \in DOMAIN calls :
             (/\ calls[p].op = "load"
              /\ \E u \in DOMAIN conf_updates : conf_updates[u].name = calls[p].name)
             => \E q \in 1..(p - 1) :
                   calls[q].op = "update" /\ calls[q].name = calls[p].name

\* C2: an update whose source is not requested is never called; of the updates
\* of a requested source only the first listed is called, once; the calls are
\* made in the order of the list; when _update_defaults returns, the first
\* update of every requested source has been called.
C2_UpdatesOncePerRequestedSource ==
    LET uc == UpdateCalls
    IN  /\ \A p \in DOMAIN uc :
              /\ uc[p].idx \in DOMAIN conf_updates
              /\ conf_updates[uc[p].idx].name = uc[p].name
              /\ conf_updates[uc[p].idx].cls[2] = uc[p].func
              /\ Requested(uc[p].name)
              /\ FirstForSource(uc[p].idx)
        /\ \A p, q \in DOMAIN uc : p < q => uc[p].idx < uc[q].idx
        /\ UpdatesReturned =>
              \A u \in DOMAIN conf_updates :
                 (Requested(conf_updates[u].name) /\ FirstForSource(u))
                 => \E p \in DOMAIN uc : uc[p].idx = u

\* two updates claim one requested source; one call was made, of the first
C2_Witness ==
    /\ UpdatesReturned
    /\ Len(conf_updates) = 2
    /\ conf_updates[1].name = conf_updates[2].name
    /\ conf_updates[1].cls # conf_updates[2].cls
    /\ Requested(conf_updates[1].name)
    /\ Len(UpdateCalls) = 1
    /\ UpdateCalls[1].idx = 1

IsHeader(l) == l.kind = "header"

\* the option was loaded for an identifier whose source is a spelling of 'default'
FromDefaultSource(o) ==
    /\ o.origin \in DOMAIN conf_opts
    /\ Lower(conf_opts[o.origin].name) = sdefault

OptsOfRegistry ==
    { t[3] : t \in { Flat(cleaned)[p] : p \in DOMAIN Flat(cleaned) } } \ {NoOpt}

\* C4: the output starts with the [DEFAULT] header, every line written for an
\* option of a default source precedes the header of every other section, and
\* a completed run has written all those options.
C4_DefaultSectionFirst ==
    /\ out # << >> => out[1] = Line("header", sDEFAULT, NoOpt, "")
    /\ \A p, q \in DOMAIN out :
          (/\ IsHeader(out[q]) /\ out[q].name # sDEFAULT
           /\ out[p].opt # NoOpt /\ FromDefaultSource(out[p].opt))
          => p < q
    /\ pc = "done" =>
          \A o \in OptsOfRegistry :
             FromDefaultSource(o) => \E p \in DOMAIN out : out[p].opt = o

\* the default source is listed after another source, and both were written
C4_Witness ==
    /\ pc = "done"
    /\ Len(conf_opts) = 2
    /\ Lower(conf_opts[1].name) # sdefault
    /\ conf_opts[2].name = sdefault
    /\ \E p, q \in DOMAIN out :
          /\ p < q
          /\ out[p].opt # NoOpt /\ out[p].opt.origin = 2
          /\ IsHeader(out[q]) /\ out[q].name = conf_opts[1].name

\* the names of the section headers written after the first line
LaterHeaderNames ==
    LET Later(p) == p > 1 /\ IsHeader(out[p])
        idx == { p \in DOMAIN out : Later(p) }
        RECURSIVE Asc(_)
        Asc(S) == IF S = {} THEN << >>
                  ELSE LET m == CHOOSE x \in S : \A y \in S : x <= y
                       IN  <<out[m].name>> \o Asc(S \ {m})
    IN  Asc(idx)

\* C5 as amended: the headers of the non-default sections are written in
\* strictly ascending code-point (case-sensitive) order of section name.
C5_SectionsInCodePointOrder ==
    LET h == LaterHeaderNames
    IN  \A a, b \in DOMAIN h : a < b => StrLess(h[a], h[b])

\* C5 as stated: the headers of the non-default sections are written in
\* case-insensitive alphabetical order of section name.
C5_SectionsCaseInsensitiveOrder ==
    LET h == LaterHeaderNames
    IN  \A a, b \in DOMAIN h : a < b => ~StrLess(Lower(h[b]), Lower(h[a]))

\* sections 'Ze' and 'al' were both written
C5_Witness ==
    /\ pc = "done"
    /\ LaterHeaderNames = <<sZe, sAl>>

LinesOf(o) == LET Mine(l) == l.opt = o IN SelectSeq(out, Mine)

\* formatting the option raises: it has no `mutable` attribute
FormatRaises(o) == o.mutable = "absent"

\* C6: a formatting failure never ends the run; of an option whose formatting
\* raises, the output holds exactly the two warning lines, the first with its
\* dest and the second with the error text; a completed run has written every
\* option of every non-empty listing, the ones after a failing option included.
C6_FormatFailureIsLocal ==
    /\ err \in {"none", "ImportError"}
    /\ pc = "aborted" => out = << >>
    /\ \A p \in DOMAIN out :
          (out[p].opt # NoOpt /\ FormatRaises(out[p].opt)) =>
             LinesOf(out[p].opt) =
                << Line("warning", << >>, out[p].opt, ""),
                   Line("warning_err", << >>, out[p].opt, "TypeError") >>
    /\ \A p \in DOMAIN out :
          out[p].kind = "warning" =>
             /\ p < Len(out)
             /\ out[p + 1].kind = "warning_err"
             /\ out[p + 1].opt = out[p].opt
    /\ pc = "done" =>
          \A o \in OptsOfRegistry :
             IF FormatRaises(o)
             THEN Len(LinesOf(o)) = 2
             ELSE \E p \in DOMAIN out : out[p] = Line("default", << >>, o, "")

\* an option failed, and a later option of its section and a later section
\* were written after the warning
C6_Witness ==
    /\ pc = "done"
    /\ \E p, q, r \in DOMAIN out :
          /\ p < q /\ q < r
          /\ out[p].kind = "warning_err"
          /\ out[q].kind = "default" /\ out[q].opt.origin = out[p].opt.origin
          /\ IsHeader(out[r])

\* the section a group of the registry is written under
SectionOf(group) == IF group.kind = "None" THEN sDEFAULT ELSE group.name

RegistryPairs == { Flat(cleaned)[p] : p \in DOMAIN Flat(cleaned) }

\* the registry holds the section, and only with empty option lists
AllEmptySection(name) ==
    /\ \E t \in RegistryPairs : SectionOf(t[2]) = name
    /\ \A t \in RegistryPairs : SectionOf(t[2]) = name => t[3] = NoOpt

HeaderWritten(name) == \E p \in DOMAIN out : IsHeader(out[p]) /\ out[p].name = name

\* C7 as amended: a completed run has written no header for a section other
\* than DEFAULT whose option lists are all empty; the [DEFAULT] header is
\* written even then.
C7_EmptyNonDefaultSectionsOmitted ==
    pc = "done" =>
       /\ \A t \in RegistryPairs :
             (SectionOf(t[2]) # sDEFAULT /\ AllEmptySection(SectionOf(t[2])))
             => ~HeaderWritten(SectionOf(t[2]))
       /\ HeaderWritten(sDEFAULT)

\* C7 as stated: a completed run has written no header for any section whose
\* option lists are all empty.
C7_EmptySectionsOmitted ==
    pc = "done" =>
       \A t \in RegistryPairs :
          AllEmptySection(SectionOf(t[2])) => ~HeaderWritten(SectionOf(t[2]))

\* section 'Ze' is in the registry with no option, another section was written
C7_Witness ==
    /\ pc = "done"
    /\ AllEmptySection(sZe)
    /\ ~HeaderWritten(sZe)
    /\ HeaderWritten(sAl)

\* C8: when generate was given an output file, the file is closed once the
\* run has ended, normally or with an error.
C8_FileClosedOnExit ==
    (pc \in {"done", "aborted"} /\ conf_output_file # "") => file = "closed"

Unresolvable(id) == id.cls[1] # "m" \/ id.cls[2] \notin LoaderAttrs \cup HookAttrs

\* C9: when a namespace or update locator cannot be resolved, the run never
\* gets past that identifier, it ends only with ImportError, and nothing is
\* written.
C9_UnresolvedLocatorAborts ==
    /\ \A k \in DOMAIN conf_opts :
          Unresolvable(conf_opts[k]) => i <= k /\ pc \in {"start", "loaders", "aborted"}
    /\ \A u \in DOMAIN conf_updates :
          Unresolvable(conf_updates[u]) =>
             j <= u /\ pc \in {"start", "loaders", "updates", "aborted"}
    /\ pc = "aborted" => err = "ImportError" /\ out = << >>
    /\ (\E k \in DOMAIN conf_opts : Unresolvable(conf_opts[k])) => out = << >>
    /\ (\E u \in DOMAIN conf_updates : Unresolvable(conf_updates[u])) => out = << >>

\* the locator of an update of an unrequested source failed, after the
\* loaders had been called
C9_Witness ==
    /\ pc = "aborted"
    /\ err = "ImportError"
    /\ out = << >>
    /\ calls # << >>
    /\ \E u \in DOMAIN conf_updates :
          Unresolvable(conf_updates[u]) /\ ~Requested(conf_updates[u].name)

Canonical(name) == IF Lower(name) = sdefault THEN sDEFAULT ELSE name

\* what the loaders of the identifiers of one section returned, in list order
RECURSIVE LoadedFor(_, _)
LoadedFor(name, k) ==
    IF k > Len(loaders) THEN << >>
    ELSE (IF Canonical(conf_opts[k].name) = name THEN loaders[k][2][1][2] ELSE << >>)
         \o LoadedFor(name, k + 1)

Banners(name) == { p \in DOMAIN out : out[p].kind = "banner" /\ out[p].name = name }

\* C10: in the Section View every section holds at most one (namespace,
\* options) pair, the pair's namespace is the section's name, no two keys
\* name one section and the only spelling of 'default' is 'DEFAULT'; the
\* pair's options are the in-place merge of what the loaders of the section's
\* identifiers returned; the output has at most one banner per namespace.
C10_OneBlockPerSection ==
    /\ pc = "default" =>
          /\ \A k \in DOMAIN groups :
                /\ Len(groups[k]) <= 1
                /\ Lower(k.name) = sdefault => k.name = sDEFAULT
                /\ Len(groups[k]) = 1 =>
                      /\ groups[k][1][1] = k.name
                      /\ IsOverwriteMerge(LoadedFor(k.name, 1), groups[k][1][2])
          /\ \A k1, k2 \in DOMAIN groups : k1.name = k2.name => k1 = k2
    /\ \A p \in DOMAIN out :
          out[p].kind = "banner" => Cardinality(Banners(out[p].name)) = 1

\* two identifiers of one source: one banner, and an option of the second
\* identifier is written before an option of the first
C10_Witness ==
    /\ pc = "done"
    /\ Len(conf_opts) = 2
    /\ Canonical(conf_opts[1].name) = Canonical(conf_opts[2].name)
    /\ conf_opts[1].name # conf_opts[2].name
    /\ Cardinality(Banners(sDEFAULT)) = 1
    /\ \E p, q \in DOMAIN out :
          /\ p < q
          /\ out[p].kind = "default" /\ out[p].opt.origin = 2
          /\ out[q].kind = "default" /\ out[q].opt.origin = 1

====
